---- MODULE Spec2Model ----
(***************************************************************************)
(* Model of the scooper TCP log sink (src/src/main.rs).                    *)
(*                                                                         *)
(* One process: main (bind, open the log file, size check, accept loop),   *)
(* one spawned shutdown watcher (ctrl_c -> graceful_shutdown) and one      *)
(* spawned task per accepted connection (log_message, socket.shutdown).    *)
(* Every .await of the source is a step boundary; the two tokio mutexes    *)
(* are the variables fileLock and budgetLock.  A connection task's last    *)
(* step also covers the return of log_message and socket.shutdown(),       *)
(* which touch no shared state.                                            *)
(*                                                                         *)
(* The log file is a sequence of chunks.  A chunk is what one write_all    *)
(* call hands to the BufWriter: a stamp (carrying the client and the       *)
(* length n it prints), a payload of some length, or bytes that were in    *)
(* the file before the process started.  The timestamp inside the stamp    *)
(* is not represented.  Chunks reach the file only on flush; what is in    *)
(* the BufWriter when the process exits is lost.  A failing flush is       *)
(* modelled as committing nothing of the buffered record.                  *)
(*                                                                         *)
(* usize arithmetic is modelled on unbounded integers: the counter is at   *)
(* most max_log_size + 4096 and never wraps for any file the OS can hold.  *)
(***************************************************************************)
EXTENDS Integers, Sequences, FiniteSets, TLC

\* ---------------------------------------------------------------- bounds
MaxConns == 2

Conns == 1..MaxConns

\* what a client has sent when the handler's single read runs
ClientSends == {0, 50, 60, 5000}

\* MAX_FILE_SIZE values the process may be started with
MaxLogSizes == {100}

\* ---------------------------------------------------- program constants
BUFFER_SIZE == 4096

NoTask == 0

Watcher == 0 - 1

NoCode == 0 - 1

ReadErr == 0 - 1

Underflow == 0 - 1

\* ---------------------------------------------------------------- chunks
Stamp(c, k) == [kind |-> "stamp", client |-> c, len |-> k]

Data(c, k) == [kind |-> "data", client |-> c, len |-> k]

Old(k) == [kind |-> "old", client |-> 0, len |-> k]

\* log files the process may find at startup: empty, one record of an earlier
\* session (100 bytes, stamp included), 150 bytes of earlier content
StartupFiles == {<< >>, <<Stamp(0, 56), Data(0, 56)>>, <<Old(150)>>}

VARIABLES
  mainPc,                  \* main: "bind", "open", "check", "accept", "exited"
  max_log_size,            \* main.rs:87
  previous_bytes_written,  \* main.rs:101
  startContent,            \* content of the log file when the process started
  file,                    \* content of the log file on disk
  buf,                     \* chunks held by the BufWriter, not yet flushed
  fileLock,                \* holder of Mutex<BufWriter<File>>
  bytes_counter,           \* value inside Mutex<usize>
  budgetLock,              \* holder of Mutex<usize>
  accepted,                \* number of connections accepted so far
  hpc,                     \* position of each connection task: "none", "read",
                           \* "flushonly", "flushing", "lockfile", "stamp",
                           \* "payload", "flush", "inc", "check", "closed"
                           \* (log_message returned Ok, socket shut down),
                           \* "failed" (it returned Err, the error was
                           \* printed, socket shut down)
  rd,                      \* result of each connection's read (n), 0 once
                           \* log_message has returned
  wpc,                     \* position of the shutdown watcher
  caught,                  \* result of ctrl_c().await: "none", "ok", "err"
  code,                    \* exit code chosen by the watcher
  summary,                 \* what graceful_shutdown printed: <<total, written>>
  exitCode,                \* process exit code, NoCode while running
  exitCause                \* which exit ended the process

vars == <<mainPc, max_log_size, previous_bytes_written, startContent, file, buf,
          fileLock, bytes_counter, budgetLock, accepted, hpc, rd, wpc, caught,
          code, summary, exitCode, exitCause>>

\* ------------------------------------------------------------- operators
Min(a, b) == IF a < b THEN a ELSE b

RECURSIVE Digits(_)
Digits(k) == IF k < 10 THEN 1 ELSE 1 + Digits(k \div 10)

\* byte lengths of the two abstracted stamp fields (13-digit millisecond
\* clock, "ddd.ddd.d.d:ppppp"-like peer address)
TS_LEN == 13

ADDR_LEN == 15

\* "\n$$$<ts>$$$<client>$$$<n>$$$\n"
StampLen(k) == 14 + TS_LEN + ADDR_LEN + Digits(k)

ChunkSize(ch) == IF ch.kind = "stamp" THEN StampLen(ch.len) ELSE ch.len

RECURSIVE FileSize(_)
FileSize(f) == IF f = << >> THEN 0 ELSE ChunkSize(Head(f)) + FileSize(Tail(f))

ReadWholeMessage(d) == d

\* reader.read(&mut buffer) with a 4096-byte buffer on a socket holding d bytes
ReadOk(d) == Min(d, BUFFER_SIZE)

HasDataAlways(r) == r # ReadErr /\ r >= 0

\* Ok(n) if n > 0
HasData(r) == r # ReadErr /\ r > 0

AppendOnlyOverwrite(f, b) == b

\* flush of the BufWriter over a file opened with append(true)
Flush(f, b) == f \o b

StartupTooBigOrEqual(size, max) == size >= max

\* previous_bytes_written > max_log_size
StartupTooBig(size, max) == size > max

OverLimitLate(counter, max) == counter > max + BUFFER_SIZE

\* *bytes_guard > max_size
OverLimit(counter, max) == counter > max

SeedZero(prev) == 0

\* Mutex::new(previous_bytes_written)
SeedCounter(prev) == prev

AddBytesWithStamp(counter, k) == counter + k + StampLen(k)

\* *bytes_guard += n
AddBytes(counter, k) == counter + k

AlwaysZero(ok) == 0

\* Ok(_) => 0, Err(e) => 1
SignalCode(ok) == IF ok THEN 0 ELSE 1

\* total - original_size on usize
USub(a, b) == IF a >= b THEN a - b ELSE Underflow

\* std::process::exit has not been called and main has not returned
Alive == exitCode = NoCode

ProcState ==
  IF exitCode # NoCode THEN "EXITED"
  ELSE IF mainPc = "accept" THEN "LISTENING" ELSE "STARTING"

Exit(c, cause) == exitCode' = c /\ exitCause' = cause

FileLockIgnored == TRUE

\* file.lock().await can complete
FileLockFree == fileLock = NoTask

\* bytes_counter.lock().await can complete
BudgetLockFree == budgetLock = NoTask

\* ------------------------------------------------------------------ Init
Init ==
  /\ mainPc = "bind"
  /\ max_log_size \in MaxLogSizes
  /\ file \in StartupFiles
  /\ startContent = file
  /\ previous_bytes_written = 0
  /\ buf = << >>
  /\ fileLock = NoTask
  /\ bytes_counter = 0
  /\ budgetLock = NoTask
  /\ accepted = 0
  /\ hpc = [h \in Conns |-> "none"]
  /\ rd = [h \in Conns |-> 0]
  /\ wpc = "unspawned"
  /\ caught = "none"
  /\ code = NoCode
  /\ summary = << >>
  /\ exitCode = NoCode
  /\ exitCause = "none"

\* ------------------------------------------------------------------ main
\* TcpListener::bind(&addr).await?
Bind ==
  /\ Alive /\ mainPc = "bind"
  /\ \E ok \in BOOLEAN :
       IF ok THEN mainPc' = "open" /\ UNCHANGED <<exitCode, exitCause>>
       ELSE mainPc' = "exited" /\ Exit(1, "bind_error")
  /\ UNCHANGED <<max_log_size, previous_bytes_written, startContent, file,
                 buf, fileLock, bytes_counter, budgetLock, accepted, hpc, rd,
                 wpc, code, summary, caught>>

\* OpenOptions ... .open(log_file).await?  and  raw_file.metadata().await?.len()
OpenFile ==
  /\ Alive /\ mainPc = "open"
  /\ \E ok \in BOOLEAN :
       IF ok
       THEN /\ mainPc' = "check"
            /\ previous_bytes_written' = FileSize(file)
            /\ UNCHANGED <<exitCode, exitCause>>
       ELSE /\ mainPc' = "exited"
            /\ Exit(1, "open_error")
            /\ UNCHANGED previous_bytes_written
  /\ UNCHANGED <<max_log_size, startContent, file, buf, fileLock,
                 bytes_counter, budgetLock, accepted, hpc, rd, wpc, code,
                 summary, caught>>

\* the size check, the two Arc<Mutex<..>> and the spawn of the watcher
CheckSize ==
  /\ Alive /\ mainPc = "check"
  /\ IF StartupTooBig(previous_bytes_written, max_log_size)
     THEN /\ mainPc' = "exited"
          /\ Exit(1, "startup_size")
          /\ UNCHANGED <<bytes_counter, wpc>>
     ELSE /\ mainPc' = "accept"
          /\ bytes_counter' = SeedCounter(previous_bytes_written)
          /\ wpc' = "ctrl_c"
          /\ UNCHANGED <<exitCode, exitCause>>
  /\ UNCHANGED <<max_log_size, previous_bytes_written, startContent, file,
                 buf, fileLock, budgetLock, accepted, hpc, rd, code, summary,
                 caught>>

\* listener.accept().await succeeded; the connection task is spawned
Accept ==
  /\ Alive /\ mainPc = "accept"
  /\ accepted < MaxConns
  /\ accepted' = accepted + 1
  /\ hpc' = [hpc EXCEPT ![accepted + 1] = "read"]
  /\ UNCHANGED <<mainPc, max_log_size, previous_bytes_written, startContent,
                 file, buf, fileLock, bytes_counter, budgetLock, rd, wpc,
                 code, summary, exitCode, exitCause, caught>>

\* listener.accept().await? failed: main returns Err and the process ends
AcceptFail ==
  /\ Alive /\ mainPc = "accept"
  /\ mainPc' = "exited"
  /\ Exit(1, "accept_error")
  /\ UNCHANGED <<max_log_size, previous_bytes_written, startContent, file,
                 buf, fileLock, bytes_counter, budgetLock, accepted, hpc, rd,
                 wpc, code, summary, caught>>

\* ------------------------------------------------- connection task (h)
\* reader.read(&mut buffer).await and the match on its result
Read(h) ==
  /\ Alive /\ hpc[h] = "read"
  /\ \E r \in {ReadErr} \cup {ReadOk(d) : d \in ClientSends} :
       /\ rd' = [rd EXCEPT ![h] = r]
       /\ hpc' = [hpc EXCEPT ![h] = IF HasData(r) THEN "lockfile" ELSE "flushonly"]
  /\ UNCHANGED <<mainPc, max_log_size, previous_bytes_written, startContent,
                 file, buf, fileLock, bytes_counter, budgetLock, accepted,
                 wpc, code, summary, exitCode, exitCause, caught>>

\* empty read or read error: file.lock().await
EmptyLock(h) ==
  /\ Alive /\ hpc[h] = "flushonly"
  /\ FileLockFree
  /\ fileLock' = h
  /\ hpc' = [hpc EXCEPT ![h] = "flushing"]
  /\ UNCHANGED <<mainPc, max_log_size, previous_bytes_written, startContent,
                 file, buf, bytes_counter, budgetLock, accepted, rd, wpc,
                 code, summary, exitCode, exitCause, caught>>

\* .flush().await? ; return Ok(()) ; socket.shutdown()  (the guard is dropped
\* either way)
EmptyFlush(h) ==
  /\ Alive /\ hpc[h] = "flushing"
  /\ \E ok \in BOOLEAN :
       /\ file' = IF ok THEN Flush(file, buf) ELSE file
       /\ hpc' = [hpc EXCEPT ![h] = IF ok THEN "closed" ELSE "failed"]
  /\ rd' = [rd EXCEPT ![h] = 0]
  /\ buf' = << >>
  /\ fileLock' = NoTask
  /\ UNCHANGED <<mainPc, max_log_size, previous_bytes_written, startContent,
                 bytes_counter, budgetLock, accepted, wpc, code, summary,
                 exitCode, exitCause, caught>>

LockFileNoWait(h) ==
  /\ Alive /\ hpc[h] = "lockfile"
  /\ fileLock' = h
  /\ hpc' = [hpc EXCEPT ![h] = "stamp"]
  /\ UNCHANGED <<mainPc, max_log_size, previous_bytes_written, startContent,
                 file, buf, bytes_counter, budgetLock, accepted, rd, wpc,
                 code, summary, exitCode, exitCause, caught>>

\* let mut file_guard = file.lock().await
LockFile(h) ==
  /\ Alive /\ hpc[h] = "lockfile"
  /\ FileLockFree
  /\ fileLock' = h
  /\ hpc' = [hpc EXCEPT ![h] = "stamp"]
  /\ UNCHANGED <<mainPc, max_log_size, previous_bytes_written, startContent,
                 file, buf, bytes_counter, budgetLock, accepted, rd, wpc,
                 code, summary, exitCode, exitCause, caught>>

\* file_guard.write_all(line_stamp.as_bytes()).await?
WriteStamp(h) ==
  /\ Alive /\ hpc[h] = "stamp"
  /\ buf' = Append(buf, Stamp(h, rd[h]))
  /\ hpc' = [hpc EXCEPT ![h] = "payload"]
  /\ UNCHANGED <<mainPc, max_log_size, previous_bytes_written, startContent,
                 file, fileLock, bytes_counter, budgetLock, accepted, rd,
                 wpc, code, summary, exitCode, exitCause, caught>>

\* file_guard.write_all(&buffer[0..n]).await?
WritePayload(h) ==
  /\ Alive /\ hpc[h] = "payload"
  /\ buf' = Append(buf, Data(h, rd[h]))
  /\ hpc' = [hpc EXCEPT ![h] = "flush"]
  /\ UNCHANGED <<mainPc, max_log_size, previous_bytes_written, startContent,
                 file, fileLock, bytes_counter, budgetLock, accepted, rd,
                 wpc, code, summary, exitCode, exitCause, caught>>

AfterFlushIgnoringErr(ok) == "inc"

\* the ? on file_guard.flush().await: Ok goes on to increment_bytes_counter,
\* Err returns from log_message
AfterFlush(ok) == IF ok THEN "inc" ELSE "failed"

KeptFileLock(h) == h

\* file_guard goes out of scope at the end of the block
DroppedFileGuard(h) == NoTask

FlushRecordFatal(h) ==
  /\ Alive /\ hpc[h] = "flush"
  /\ \E ok \in BOOLEAN :
       /\ file' = IF ok THEN Flush(file, buf) ELSE file
       /\ hpc' = [hpc EXCEPT ![h] = AfterFlush(ok)]
       /\ IF ok THEN UNCHANGED <<exitCode, exitCause>> ELSE Exit(1, "write_error")
  /\ rd' = [rd EXCEPT ![h] = IF hpc'[h] = "inc" THEN rd[h] ELSE 0]
  /\ buf' = << >>
  /\ fileLock' = DroppedFileGuard(h)
  /\ UNCHANGED <<mainPc, max_log_size, previous_bytes_written, startContent,
                 bytes_counter, budgetLock, accepted, wpc, code, summary,
                 caught>>

\* file_guard.flush().await? and the end of the block that drops file_guard;
\* on Err log_message returns, the error is printed and the socket is shut down
FlushRecord(h) ==
  /\ Alive /\ hpc[h] = "flush"
  /\ \E ok \in BOOLEAN :
       /\ file' = IF ok THEN Flush(file, buf) ELSE file
       /\ hpc' = [hpc EXCEPT ![h] = AfterFlush(ok)]
  /\ rd' = [rd EXCEPT ![h] = IF hpc'[h] = "inc" THEN rd[h] ELSE 0]
  /\ buf' = << >>
  /\ fileLock' = DroppedFileGuard(h)
  /\ UNCHANGED <<mainPc, max_log_size, previous_bytes_written, startContent,
                 bytes_counter, budgetLock, accepted, wpc, code, summary,
                 exitCode, exitCause, caught>>

\* increment_bytes_counter: let mut bytes_guard = bytes_counter.lock().await
LockBudget(h) ==
  /\ Alive /\ hpc[h] = "inc"
  /\ BudgetLockFree
  /\ budgetLock' = h
  /\ hpc' = [hpc EXCEPT ![h] = "check"]
  /\ UNCHANGED <<mainPc, max_log_size, previous_bytes_written, startContent,
                 file, buf, fileLock, bytes_counter, accepted, rd, wpc, code,
                 summary, exitCode, exitCause, caught>>

\* else { *bytes_guard += n } ; true ; Ok(()) ; socket.shutdown()
Increment(h) ==
  /\ Alive /\ hpc[h] = "check"
  /\ ~OverLimit(bytes_counter, max_log_size)
  /\ bytes_counter' = AddBytes(bytes_counter, rd[h])
  /\ rd' = [rd EXCEPT ![h] = 0]
  /\ budgetLock' = NoTask
  /\ hpc' = [hpc EXCEPT ![h] = "closed"]
  /\ UNCHANGED <<mainPc, max_log_size, previous_bytes_written, startContent,
                 file, buf, fileLock, accepted, wpc, code, summary, exitCode,
                 exitCause, caught>>

OverflowReturn(h) ==
  /\ Alive /\ hpc[h] = "check"
  /\ OverLimit(bytes_counter, max_log_size)
  /\ rd' = [rd EXCEPT ![h] = 0]
  /\ budgetLock' = NoTask
  /\ hpc' = [hpc EXCEPT ![h] = "closed"]
  /\ UNCHANGED <<mainPc, max_log_size, previous_bytes_written, startContent,
                 file, buf, fileLock, bytes_counter, accepted, wpc, code,
                 summary, exitCode, exitCause, caught>>

\* if *bytes_guard > max_size { eprintln!(..); exit(1) }
OverflowExit(h) ==
  /\ Alive /\ hpc[h] = "check"
  /\ OverLimit(bytes_counter, max_log_size)
  /\ Exit(1, "overflow")
  /\ UNCHANGED <<mainPc, max_log_size, previous_bytes_written, startContent,
                 file, buf, fileLock, bytes_counter, budgetLock, accepted,
                 hpc, rd, wpc, code, summary, caught>>

\* ----------------------------------------------------- shutdown watcher
\* let caught = ctrl_c().await ; the match that picks message and code
CtrlC ==
  /\ Alive /\ wpc = "ctrl_c"
  /\ \E ok \in BOOLEAN :
       /\ caught' = IF ok THEN "ok" ELSE "err"
       /\ code' = SignalCode(ok)
  /\ wpc' = "lockfile"
  /\ UNCHANGED <<mainPc, max_log_size, previous_bytes_written, startContent,
                 file, buf, fileLock, bytes_counter, budgetLock, accepted, hpc,
                 rd, summary, exitCode, exitCause>>

\* graceful_shutdown: file.lock().await
ShutLockFile ==
  /\ Alive /\ wpc = "lockfile"
  /\ FileLockFree
  /\ fileLock' = Watcher
  /\ wpc' = "flush"
  /\ UNCHANGED <<mainPc, max_log_size, previous_bytes_written, startContent,
                 file, buf, bytes_counter, budgetLock, accepted, hpc, rd,
                 code, summary, exitCode, exitCause, caught>>

\* .flush().await.unwrap_or_else(..) ; println!("{message}")
ShutFlush ==
  /\ Alive /\ wpc = "flush"
  /\ \E ok \in BOOLEAN : file' = IF ok THEN Flush(file, buf) ELSE file
  /\ buf' = << >>
  /\ fileLock' = NoTask
  /\ wpc' = "lockbudget"
  /\ UNCHANGED <<mainPc, max_log_size, previous_bytes_written, startContent,
                 bytes_counter, budgetLock, accepted, hpc, rd, code, summary,
                 exitCode, exitCause, caught>>

\* bytes_counter.lock().await
ShutLockBudget ==
  /\ Alive /\ wpc = "lockbudget"
  /\ BudgetLockFree
  /\ budgetLock' = Watcher
  /\ wpc' = "total"
  /\ UNCHANGED <<mainPc, max_log_size, previous_bytes_written, startContent,
                 file, buf, fileLock, bytes_counter, accepted, hpc, rd, code,
                 summary, exitCode, exitCause, caught>>

\* let total = *guard ; println!("Total log size: .. | Written in this session: ..")
ShutSummary ==
  /\ Alive /\ wpc = "total"
  /\ summary' = <<bytes_counter, USub(bytes_counter, previous_bytes_written)>>
  /\ budgetLock' = NoTask
  /\ wpc' = "exit"
  /\ UNCHANGED <<mainPc, max_log_size, previous_bytes_written, startContent,
                 file, buf, fileLock, bytes_counter, accepted, hpc, rd, code,
                 exitCode, exitCause, caught>>

ShutExitAfterHandlers ==
  /\ Alive /\ wpc = "exit"
  /\ \A h \in Conns : hpc[h] \in {"none", "closed", "failed"}
  /\ Exit(code, IF caught = "ok" THEN "interrupt" ELSE "signal_error")
  /\ UNCHANGED <<mainPc, max_log_size, previous_bytes_written, startContent,
                 file, buf, fileLock, bytes_counter, budgetLock, accepted, hpc,
                 rd, wpc, code, summary, caught>>

\* exit(code)
ShutExit ==
  /\ Alive /\ wpc = "exit"
  /\ Exit(code, IF caught = "ok" THEN "interrupt" ELSE "signal_error")
  /\ UNCHANGED <<mainPc, max_log_size, previous_bytes_written, startContent,
                 file, buf, fileLock, bytes_counter, budgetLock, accepted,
                 hpc, rd, wpc, code, summary, caught>>

\* ------------------------------------------------------------------ Next
Next ==
  \/ Bind \/ OpenFile \/ CheckSize \/ Accept \/ AcceptFail
  \/ \E h \in Conns :
       \/ Read(h) \/ EmptyLock(h) \/ EmptyFlush(h)
       \/ LockFile(h) \/ WriteStamp(h) \/ WritePayload(h) \/ FlushRecord(h)
       \/ LockBudget(h) \/ Increment(h) \/ OverflowExit(h)
  \/ CtrlC \/ ShutLockFile \/ ShutFlush \/ ShutLockBudget \/ ShutSummary
  \/ ShutExit

Spec == Init /\ [][Next]_vars

\* steps of connection task h that wait for nothing outside the process: the
\* read waits for the client and is not among them
HandlerProgress(h) ==
  \/ EmptyLock(h) \/ EmptyFlush(h)
  \/ LockFile(h) \/ WriteStamp(h) \/ WritePayload(h) \/ FlushRecord(h)
  \/ LockBudget(h) \/ Increment(h) \/ OverflowExit(h)

\* steps of the shutdown watcher once ctrl_c() has completed
WatcherProgress ==
  ShutLockFile \/ ShutFlush \/ ShutLockBudget \/ ShutSummary \/ ShutExit

\* Lock waiting and scheduling do not depend on how many bytes a client
\* sent: the fair specification lets every read return an error, 0 or 60
\* bytes (60 + 60 and 100 + 60 still pass the maximum of 100).
FairPayloads == {ReadErr, 0, 60}

FairNext == Next /\ \A h \in Conns : rd'[h] \in FairPayloads

\* the scheduler runs every task that is ready; clients, the interrupt and
\* accept errors are under no obligation
FairSpec ==
  /\ Init /\ [][FairNext]_vars
  /\ WF_vars(WatcherProgress)
  /\ \A h \in Conns : WF_vars(HandlerProgress(h))

\* ------------------------------------------------------------ vocabulary
IsPrefix(a, b) == Len(a) <= Len(b) /\ SubSeq(b, 1, Len(a)) = a

\* what the file holds after the content found at startup
SessionPart(f) == SubSeq(f, Len(startContent) + 1, Len(f))

\* f is a concatenation of complete records of this session's connections
RECURSIVE Records(_)
Records(f) ==
  IF f = << >> THEN TRUE
  ELSE /\ Len(f) >= 2
       /\ f[1].kind = "stamp" /\ f[1].client \in Conns
       /\ f[2].kind = "data" /\ f[2].client = f[1].client
       /\ f[2].len = f[1].len
       /\ Records(SubSeq(f, 3, Len(f)))

RECURSIVE PayloadSum(_)
PayloadSum(f) ==
  IF f = << >> THEN 0
  ELSE (IF Head(f).kind = "data" THEN Head(f).len ELSE 0) + PayloadSum(Tail(f))

\* startup succeeded: counter and watcher exist
Started == wpc # "unspawned"

\* no connection task is between its file write and the end of its increment
NoPendingIncrement == \A h \in Conns : hpc[h] \notin {"inc", "check"}

\* ---------------------------------------------------------------- claims
\* C1: in every reachable state, exit states included, the log file is the
\* startup content followed by complete records: a stamp carrying n followed
\* at once by the n payload bytes of the same connection.
C1_WellFormedFile ==
  /\ IsPrefix(startContent, file)
  /\ Records(SessionPart(file))

C1_Witness ==
  /\ exitCode # NoCode
  /\ Len(SessionPart(file)) = 4
  /\ file[Len(file)].client # file[Len(file) - 2].client

\* C2: when every connection task that wrote a record has finished its
\* handling, ByteBudget is the startup size plus the payload bytes of the
\* session's records, stamp bytes not counted.
C2_BudgetIsPayloadSum ==
  (Started /\ NoPendingIncrement) =>
    bytes_counter = previous_bytes_written + PayloadSum(SessionPart(file))

C2_Witness ==
  /\ Started /\ NoPendingIncrement
  /\ Len(SessionPart(file)) = 4
  /\ bytes_counter = 110
  /\ \A h \in Conns : hpc[h] = "closed"

\* C3 (as claimed): a counter above the maximum is detected by the task that
\* put it there, so the counter is above the maximum only in a process that
\* has exited with code 1 on the overflow path.
C3_DetectedBySameHandler ==
  (Started /\ bytes_counter > max_log_size) =>
    (exitCode = 1 /\ exitCause = "overflow")

\* C4 (as claimed): no record is written to the file while ByteBudget is
\* already above the configured maximum.
C4_NoWriteAboveMax ==
  [][file' # file => ~(bytes_counter > max_log_size)]_vars

\* C5: a task that finds ByteBudget above the maximum in the budget check can
\* only exit the process; that exit has code 1, is taken without the shutdown
\* path (no flush, no summary), and after an exit the file and ByteBudget
\* never change, whatever the other tasks were doing.
C5_OverflowExitIsAbrupt ==
  [][/\ \A h \in Conns :
          (hpc[h] = "check" /\ bytes_counter > max_log_size /\ exitCode = NoCode)
            => (hpc'[h] = "check"
                /\ (exitCode' # NoCode \/ UNCHANGED <<bytes_counter, budgetLock>>))
     /\ (exitCause # "overflow" /\ exitCause' = "overflow") =>
          /\ exitCode' = 1
          /\ \E h \in Conns : hpc[h] = "check" /\ bytes_counter > max_log_size
          /\ UNCHANGED <<file, buf, bytes_counter, summary, wpc, fileLock>>
     /\ exitCode # NoCode =>
          UNCHANGED <<file, bytes_counter, exitCode, exitCause, summary>>]_vars

C5_Witness ==
  /\ exitCause = "overflow"
  /\ \E h \in Conns : hpc[h] = "check" /\ budgetLock = h
  /\ wpc \in {"lockfile", "flush", "lockbudget"}

\* C6: the size check exits with code 1 when the startup size is strictly
\* above the maximum, with no watcher spawned, no connection accepted and
\* nothing written; otherwise (equality included) the process is LISTENING
\* with ByteBudget equal to the startup size.
C6_StartupCheck ==
  [][/\ (mainPc = "check" /\ mainPc' # "check") =>
          /\ previous_bytes_written = FileSize(startContent)
          /\ IF previous_bytes_written > max_log_size
             THEN exitCode' = 1 /\ exitCause' = "startup_size"
             ELSE ProcState' = "LISTENING"
                  /\ bytes_counter' = previous_bytes_written
     /\ exitCause' = "startup_size" =>
          /\ wpc' = "unspawned" /\ accepted' = 0
          /\ file' = startContent /\ buf' = << >>]_vars

C6_Witness ==
  /\ ProcState = "LISTENING"
  /\ previous_bytes_written = max_log_size
  /\ bytes_counter = previous_bytes_written
  /\ accepted > 0

\* C7: a connection whose read returned zero bytes or an error only takes the
\* file lock and flushes: each of its steps leaves the file, ByteBudget, the
\* budget lock and the process state as they were, it never reaches the
\* budget check, and it ends.
C7_EmptyReadOnlyFlushes ==
  [][\A h \in Conns :
       /\ (hpc[h] = "read" /\ hpc'[h] # "read" /\ rd'[h] \in {ReadErr, 0})
            => hpc'[h] = "flushonly"
       /\ (hpc[h] \in {"flushonly", "flushing"} /\ hpc'[h] # hpc[h]) =>
            /\ hpc'[h] \in {"flushing", "closed", "failed"}
            /\ ProcState' = ProcState
            /\ UNCHANGED <<file, bytes_counter, budgetLock>>]_vars

C7_Witness ==
  /\ ProcState = "LISTENING"
  /\ hpc[1] = "flushing" /\ hpc[2] = "inc"
  /\ Len(SessionPart(file)) = 2

\* C8 (as claimed): code 0 only by a cleanly received interrupt, and every
\* exit with code 1 is a budget overflow, a startup size over the maximum or
\* a failure to register or receive the interrupt.
C8_ExitCausesAsClaimed ==
  exitCode # NoCode =>
    \/ exitCode = 0 /\ exitCause = "interrupt"
    \/ exitCode = 1 /\ exitCause \in {"overflow", "startup_size", "signal_error"}

\* C8 (amended): code 0 only by a cleanly received interrupt handled by the
\* shutdown path; every other exit has code 1 and is a budget overflow, a
\* startup size over the maximum, a failure to register or receive the
\* interrupt, or an error returned by main (bind, open/metadata, accept).
C8_ExitCauses ==
  exitCode # NoCode =>
    \/ /\ exitCode = 0 /\ exitCause = "interrupt"
       /\ caught = "ok" /\ wpc = "exit" /\ summary # << >>
    \/ /\ exitCode = 1
       /\ exitCause \in {"overflow", "startup_size", "signal_error",
                         "bind_error", "open_error", "accept_error"}
       /\ exitCause = "signal_error" => caught = "err"

C8_Witness ==
  /\ exitCode = 1 /\ exitCause = "signal_error"
  /\ Len(SessionPart(file)) > 0

\* C9: the log file is append-only: at every step the old content is a prefix
\* of the new content, and the content found at startup stays a prefix.
C9_AppendOnly ==
  [][IsPrefix(file, file') /\ IsPrefix(startContent, file')]_vars

C9_Witness ==
  /\ startContent # << >>
  /\ Len(file) > Len(startContent)

\* C10: once the counter exists it is at least the startup size, it never
\* decreases, and the session total printed by the shutdown path did not
\* underflow.
C10_BudgetMonotone ==
  [][/\ bytes_counter' >= bytes_counter
     /\ Started' => bytes_counter' >= previous_bytes_written'
     /\ summary' # << >> =>
          /\ summary'[2] # Underflow
          /\ summary'[2] = summary'[1] - previous_bytes_written']_vars

C10_Witness ==
  /\ summary # << >>
  /\ summary[2] > 0
  /\ previous_bytes_written > 0

\* C13: once the interrupt has been received the process reaches EXITED under
\* fair scheduling, and the shutdown path waits for nothing but the file lock
\* and then the budget lock: each of its steps is enabled whenever the lock it
\* needs is free, whatever the connection tasks are doing.
C13_ShutdownDoesNotWait ==
  /\ (caught # "none") ~> (exitCode # NoCode)
  /\ [](Alive /\ wpc = "lockfile" /\ fileLock = NoTask => ENABLED ShutLockFile)
  /\ [](Alive /\ wpc = "lockbudget" /\ budgetLock = NoTask => ENABLED ShutLockBudget)
  /\ [](Alive /\ wpc \in {"flush", "total", "exit"} => ENABLED WatcherProgress)

C13_Witness ==
  /\ exitCause = "interrupt"
  /\ hpc[1] = "inc"
  /\ hpc[2] = "lockfile"

\* C11: a read error or a failed flush on one connection is contained: the
\* step leaves the process state, the file, ByteBudget and every other task
\* as they were, a failed flush ends the task with both locks free and the
\* writer empty, and in every state the file is still made of complete
\* records whose payload bytes ByteBudget matches.
C11_FailureContained ==
  [][/\ \A h \in Conns :
          /\ (hpc[h] = "read" /\ hpc'[h] # "read" /\ rd'[h] = ReadErr) =>
               /\ hpc'[h] = "flushonly"
               /\ ProcState' = ProcState
               /\ UNCHANGED <<file, buf, bytes_counter, fileLock, budgetLock>>
               /\ \A g \in Conns \ {h} : hpc'[g] = hpc[g]
          /\ (hpc[h] # "failed" /\ hpc'[h] = "failed") =>
               /\ ProcState' = ProcState
               /\ UNCHANGED <<file, bytes_counter, budgetLock, wpc>>
               /\ fileLock' = NoTask /\ buf' = << >>
               /\ \A g \in Conns \ {h} : hpc'[g] = hpc[g]
     /\ C1_WellFormedFile'
     /\ C2_BudgetIsPayloadSum']_vars

C11_Witness ==
  /\ ProcState = "LISTENING"
  /\ hpc[1] = "failed" /\ hpc[2] = "closed"
  /\ SessionPart(file) = <<Stamp(2, 60), Data(2, 60)>>
  /\ bytes_counter = previous_bytes_written + 60

\* C12: a connection task reads once and never again, every record of the
\* session has a payload of 1 to 4096 bytes whose length is the one in its
\* stamp, no connection has more than one record, and no step adds more than
\* 4096 to ByteBudget.
C12_OneBoundedRecord ==
  [][/\ \A h \in Conns : hpc'[h] = "read" => hpc[h] \in {"none", "read"}
     /\ bytes_counter' - bytes_counter <= 4096 \/ ~Started
     /\ LET f == SessionPart(file') IN
          /\ \A i \in DOMAIN f :
               /\ f[i].len >= 1 /\ f[i].len <= 4096
               /\ f[i].kind = "stamp" =>
                    i < Len(f) /\ f[i + 1] = Data(f[i].client, f[i].len)
          /\ \A c \in Conns :
               Cardinality({i \in DOMAIN f : f[i].client = c
                                              /\ f[i].kind = "data"}) <= 1]_vars

C12_Witness ==
  /\ \E i \in DOMAIN file : file[i] = Data(1, 4096)
  /\ \E i \in DOMAIN file : file[i] = Data(2, 50)
  /\ bytes_counter = previous_bytes_written + 4146

\* C14: the file changes only when the holder of the file lock flushes its own
\* record, one whole record per lock acquisition, so file writes are ordered by
\* acquisition of the file lock; the order of the ByteBudget increments is
\* free (the witness has A's record first in the file and only B's length
\* counted).
C14_WritesOrderedByFileLock ==
  [][file' # file =>
       \E h \in Conns :
         /\ fileLock = h /\ hpc[h] = "flush" /\ fileLock' = NoTask
         /\ file' = file \o <<Stamp(h, rd[h]), Data(h, rd[h])>>]_vars

C14_Witness ==
  \E a, b \in Conns :
    /\ a # b
    /\ SessionPart(file) = <<Stamp(a, rd[a]), Data(a, rd[a]), Stamp(b, 50), Data(b, 50)>>
    /\ hpc[a] = "inc" /\ hpc[b] = "closed"
    /\ bytes_counter = previous_bytes_written + 50

\* C15: no task holds the file lock and the budget lock together; the file
\* lock is held only between its acquisition and the flush, the budget lock
\* only inside the budget check or the reading of the total; a held lock always
\* belongs to a task that can step, and under fair scheduling a task waiting
\* for a lock gets it or the process exits.
C15_LocksNeverNested ==
  /\ [](\A t \in Conns \cup {Watcher} : ~(fileLock = t /\ budgetLock = t))
  /\ [](\A h \in Conns :
          /\ fileLock = h <=> hpc[h] \in {"flushing", "stamp", "payload", "flush"}
          /\ budgetLock = h <=> hpc[h] = "check")
  /\ [](/\ fileLock = Watcher <=> wpc = "flush"
        /\ budgetLock = Watcher <=> wpc = "total")
  /\ [](Alive =>
          /\ \A h \in Conns :
               (fileLock = h \/ budgetLock = h) => ENABLED HandlerProgress(h)
          /\ (fileLock = Watcher \/ budgetLock = Watcher) => ENABLED WatcherProgress)
  /\ \A h \in Conns :
       (hpc[h] \in {"flushonly", "lockfile", "inc"}) ~>
         (hpc[h] \notin {"flushonly", "lockfile", "inc"} \/ exitCode # NoCode)
  /\ (wpc \in {"lockfile", "lockbudget"}) ~>
       (wpc \notin {"lockfile", "lockbudget"} \/ exitCode # NoCode)

C15_Witness ==
  /\ Alive
  /\ fileLock = 1 /\ budgetLock = 2
  /\ wpc = "lockfile"

\* C16: after a successful startup ByteBudget is at most the maximum plus one
\* read buffer; it changes only from a value that is at most the maximum, by at
\* most 4096, and once above the maximum it never changes.
C16_BudgetBound ==
  [][/\ Started' => bytes_counter' <= max_log_size' + 4096
     /\ (Started /\ bytes_counter' # bytes_counter) =>
          /\ bytes_counter <= max_log_size
          /\ bytes_counter' - bytes_counter \in 1..4096
     /\ (Started /\ bytes_counter > max_log_size) =>
          bytes_counter' = bytes_counter]_vars

C16_Witness ==
  /\ Started
  /\ bytes_counter = max_log_size + 4096

\* C17: ByteBudget never runs ahead of the file: the payload bytes of the
\* session's records are at least ByteBudget minus the startup size, and the
\* physical file size is at least ByteBudget (the witness has a file larger
\* than the maximum plus one read buffer).
C17_BudgetNotAheadOfFile ==
  Started =>
    /\ PayloadSum(SessionPart(file)) >= bytes_counter - previous_bytes_written
    /\ FileSize(file) >= bytes_counter

C17_Witness ==
  /\ Started
  /\ PayloadSum(SessionPart(file)) > bytes_counter - previous_bytes_written
  /\ FileSize(file) > max_log_size + 4096
  /\ FileSize(file) > bytes_counter

====
